---------------------------- MODULE Spec2Model ----------------------------
(***************************************************************************)
(* A state-machine model of the time-reminder application (App.vue):       *)
(* the recurrence evaluator (shouldTrigger), the firing scheduler          *)
(* (startScheduler), the notifier (triggerAlarm) and the alarm store       *)
(* operations of the editor (openAdd, openEdit, saveForm, deleteAlarm,     *)
(* toggleAlarm).                                                           *)
(*                                                                         *)
(* Strings of the source are kept as strings; the Chinese literals are     *)
(* written in ASCII: "Reminder" for the title and the default label,       *)
(* "TimeIsUp" for the label fallback of the body, and the suffix           *)
(* " (system notification failed)" is the field annotated of a body.       *)
(***************************************************************************)
EXTENDS Integers, Sequences, FiniteSets, TLC

(***************************************************************************)
(* Bounds of the model.                                                    *)
(***************************************************************************)
\* Clock readings fall on the days BaseDay .. BaseDay + MaxDay (days since 1970-01-01).
BaseDay == 19782
MaxDay == 1
\* Clock readings and alarm times use the minutes MinuteBase .. MinuteBase + MaxMinute.
MaxMinute == 1
\* Seconds of a clock reading: 0 .. MaxSecond.
MaxSecond == 0
\* The store holds at most MaxAlarms alarms.
MaxAlarms == 1
\* crypto.randomUUID() is called at most MaxIds - 1 times.
MaxIds == 3
\* At most MaxFirings calls of triggerAlarm in a run of the scheduler.
MaxFirings == 2
\* Bounds of the inputs of the recurrence evaluator (EvalSpec).
MaxEvalDay == 7
MaxShiftDays == 3

\* Hours and minutes the clock shows and the time picker offers.
Hours == {8}
MinuteBase == 30
Minutes == MinuteBase .. (MinuteBase + MaxMinute)
Days == BaseDay .. (BaseDay + MaxDay)
Seconds == 0 .. MaxSecond

(***************************************************************************)
(* dayjs: calendar dates.  A date string 'YYYY-MM-DD' is the tuple         *)
(* <<year, month, day>>; a minute string 'YYYY-MM-DD HH:mm' is             *)
(* <<year, month, day, hour, minute>>.  An absent string ('' or undefined) *)
(* is the empty tuple.                                                     *)
(***************************************************************************)
NoDate == << >>

\* dayjs(n).format('YYYY-MM-DD') for the day number n (days since 1970-01-01).
FormatDate(n) ==
    LET z   == n + 719468
        era == z \div 146097
        doe == z - era * 146097
        yoe == (doe - doe \div 1460 + doe \div 36524 - doe \div 146096) \div 365
        doy == doe - (365 * yoe + yoe \div 4 - yoe \div 100)
        mp  == (5 * doy + 2) \div 153
        d   == doy - (153 * mp + 2) \div 5 + 1
        m   == IF mp < 10 THEN mp + 3 ELSE mp - 9
        y   == yoe + era * 400 + (IF m <= 2 THEN 1 ELSE 0)
    IN  <<y, m, d>>

\* dayjs('YYYY-MM-DD'): the day number of local midnight of the date string.
ParseDate(s) ==
    LET y0  == s[1] - (IF s[2] <= 2 THEN 1 ELSE 0)
        era == y0 \div 400
        yoe == y0 - era * 400
        mp  == IF s[2] > 2 THEN s[2] - 3 ELSE s[2] + 9
        doy == (153 * mp + 2) \div 5 + s[3] - 1
        doe == yoe * 365 + yoe \div 4 - yoe \div 100 + doy
    IN  era * 146097 + doe - 719468

\* now.day(): 0 = Sunday .. 6 = Saturday (1970-01-01 was a Thursday).
Weekday(n) == (n + 4) % 7

\* now.format('YYYY-MM-DD HH:mm')
FormatMinute(now) == FormatDate(now.day) \o <<now.hour, now.minute>>

SecondsPerDay == 86400

\* The instant of a clock reading, in seconds since 1970-01-01 00:00 local time.
Instant(now) == now.day * SecondsPerDay + now.hour * 3600 + now.minute * 60 + now.second

\* dayjs's absFloor: a difference is truncated towards zero.
AbsFloor(num, den) ==
    IF num < 0 THEN -((-num) \div den) ELSE num \div den

\* now.diff(start, 'day') with start = dayjs(startDate), local midnight.
DiffDays(now, startDate) ==
    AbsFloor(Instant(now) - ParseDate(startDate) * SecondsPerDay, SecondsPerDay)

(***************************************************************************)
(* Alarms.                                                                 *)
(***************************************************************************)
RepeatTypes == {"once", "daily", "workdays", "mon_sat", "custom", "shift"}

\* repeat.shift is optional: present says whether the object is there.
NoShift == [present |-> FALSE, startDate |-> NoDate, workDays |-> 0, restDays |-> 0]

MkShift(start, work, rest) ==
    [present |-> TRUE, startDate |-> start, workDays |-> work, restDays |-> rest]

\* a stored record that has no repeat object: alarm.repeat is undefined
NoRepeat == [type |-> "undefined", customDays |-> << >>, shift |-> NoShift]

HasRepeat(alarm) == alarm.repeat # NoRepeat

\* alarm.repeat.type (line 219) or the destructuring of alarm.repeat (line 221)
\* raises a TypeError when alarm.repeat is undefined
ShouldTriggerThrows(alarm) == ~HasRepeat(alarm)

MutIncludesFirstOnly(arr, v) == arr # << >> /\ arr[1] = v

\* x.includes(v) of an array
Includes(arr, v) == \E i \in 1..Len(arr) : arr[i] = v

\* a % b of JavaScript for a >= 0 and b # 0 (the sign of the result is a's)
JsRem(a, b) == a % (IF b < 0 THEN -b ELSE b)

\* positionInCycle < shift.workDays; diffDays % 0 is NaN and NaN < n is false.
MutShiftOffByOne(shift, diffDays) ==
    LET cycleLength == shift.workDays + shift.restDays
    IN  IF cycleLength = 0 THEN FALSE
        ELSE JsRem(diffDays, cycleLength) <= shift.workDays

MutZeroCycleFires(shift, diffDays) ==
    LET cycleLength == shift.workDays + shift.restDays
    IN  IF cycleLength = 0 THEN TRUE
        ELSE JsRem(diffDays, cycleLength) < shift.workDays

ShiftOn(shift, diffDays) ==
    LET cycleLength == shift.workDays + shift.restDays
    IN  IF cycleLength = 0 THEN FALSE
        ELSE JsRem(diffDays, cycleLength) < shift.workDays

MutOnceGuardOff(alarm, todayStr) == FALSE

MutGuardsEveryRule(alarm, todayStr) == alarm.lastTriggered = todayStr

OnceAlreadyFired(alarm, todayStr) ==
    alarm.lastTriggered = todayStr /\ alarm.repeat.type = "once"

MutWorkdaysWithSaturday(currentDay) == currentDay >= 1 /\ currentDay <= 6

MutMonToSatWithSunday(currentDay) == currentDay >= 0 /\ currentDay <= 6

\* currentDay >= 1 && currentDay <= 6
IsMonToSat(currentDay) == currentDay >= 1 /\ currentDay <= 6

\* currentDay >= 1 && currentDay <= 5
IsWorkday(currentDay) == currentDay >= 1 /\ currentDay <= 5

shouldTrigger(alarm, now, todayStr, currentDay) ==
    LET type == alarm.repeat.type
        customDays == alarm.repeat.customDays
        shift == alarm.repeat.shift
    IN  IF OnceAlreadyFired(alarm, todayStr) THEN FALSE
        ELSE IF type = "once" THEN TRUE
        ELSE IF type = "daily" THEN TRUE
        ELSE IF type = "workdays" THEN IsWorkday(currentDay)
        ELSE IF type = "mon_sat" THEN IsMonToSat(currentDay)
        ELSE IF type = "custom" THEN Includes(customDays, currentDay)
        ELSE IF type = "shift" /\ shift.present
             THEN IF DiffDays(now, shift.startDate) < 0 THEN FALSE
                  ELSE ShiftOn(shift, DiffDays(now, shift.startDate))
        ELSE FALSE


(***************************************************************************)
(* State.                                                                  *)
(***************************************************************************)
VARIABLES
    alarms,                \* alarms.value: the ordered store
    lastRunMinute,         \* the scheduler's last processed minute string
    notificationStyle,     \* settings.value.notificationStyle
    showThemeNotification, \* whether the in-app banner is displayed
    notificationData,      \* title and body of the in-app banner
    tasks,                 \* the triggerAlarm calls that are awaiting a result
    form,                  \* form.value of the editor
    isEditing,             \* the editor is open
    editingId,             \* id of the alarm under edit, 0 for null
    nextId,                \* the next value crypto.randomUUID() returns
    customDaysOwner,       \* id of the stored alarm whose repeat.customDays is the
                           \* very array that form.value.customDays is, 0 for none
    isSelectionMode,       \* the list is in selection mode
    selectedIds,           \* the ids ticked in selection mode
    fireLog,               \* history: the calls of triggerAlarm for the alarms of
                           \* the store, in order
    lastTick,              \* history: what the last scheduler tick did
    clockMonotone,         \* history: no tick read an earlier minute than the tick before
    ev                     \* inputs and result of one call of shouldTrigger

vars == <<alarms, lastRunMinute, notificationStyle, showThemeNotification,
          notificationData, tasks, form, isEditing, editingId, nextId,
          customDaysOwner, isSelectionMode, selectedIds, fireLog, lastTick, clockMonotone, ev>>

schedVars == <<alarms, lastRunMinute, fireLog, lastTick, clockMonotone>>
notifierVars == <<showThemeNotification, notificationData, tasks>>
formVars == <<form, isEditing, editingId, nextId, customDaysOwner>>
selectionVars == <<isSelectionMode, selectedIds>>

\* A reading of the clock, dayjs().
Readings == [day : Days, hour : Hours, minute : Minutes, second : Seconds]

Title == "Reminder"
DefaultLabel == "Reminder"

\* n.toString().padStart(2, '0'): the two digits of n < 100
pad(n) == <<n \div 10, n % 10>>

\* `${alarm.label || 'TimeIsUp'} - ${pad(alarm.hour)}:${pad(alarm.minute)}`
BodyOf(alarm) ==
    [label |-> IF alarm.label = "" THEN "TimeIsUp" ELSE alarm.label,
     hh |-> pad(alarm.hour), mm |-> pad(alarm.minute), annotated |-> FALSE]

\* `${body} (system notification failed)`
Annotate(body) == [body EXCEPT !.annotated = TRUE]

EmptyBody == [label |-> "", hh |-> << >>, mm |-> << >>, annotated |-> FALSE]

MkAlarm(id, hour, minute, label, enabled, type, customDays, shift, lastTriggered) ==
    [id |-> id, hour |-> hour, minute |-> minute, label |-> label,
     enabled |-> enabled,
     repeat |-> [type |-> type, customDays |-> customDays, shift |-> shift],
     lastTriggered |-> lastTriggered]

\* loadAlarms with nothing stored: the default demo alarm
DefaultAlarms ==
    << MkAlarm(1, 8, 30, "WakeUpDrinkWater", TRUE, "daily", << >>, NoShift, NoDate) >>

\* The initial form.value; shiftStart is the date of construction.
InitialForm ==
    [hour |-> 8, minute |-> 0, label |-> "Reminder", repeatType |-> "once",
     customDays |-> << >>, shiftStart |-> FormatDate(BaseDay),
     shiftWork |-> 1, shiftRest |-> 1]

\* enabledAtCall and lastTriggeredAtCall are history: the alarm's fields as
\* triggerAlarm found them when it was called
NoFrame == [alarm |-> 0, title |-> "", body |-> EmptyBody, style |-> "", pc |-> "none",
            sends |-> 0, queries |-> 0, requests |-> 0, banner |-> "none",
            restores |-> 0, firstSend |-> "", permission |-> "", retry |-> "",
            enabledAtCall |-> FALSE, lastTriggeredAtCall |-> NoDate]

NoEval == [alarm |-> MkAlarm(0, 0, 0, "", FALSE, "once", << >>, NoShift, NoDate),
           now |-> [day |-> 0, hour |-> 0, minute |-> 0, second |-> 0],
           done |-> FALSE, result |-> FALSE]

Init ==
    /\ alarms = DefaultAlarms
    /\ lastRunMinute = << >>
    /\ notificationStyle = "system"
    /\ showThemeNotification = FALSE
    /\ notificationData = [title |-> "", body |-> EmptyBody]
    /\ tasks = << >>
    /\ form = InitialForm
    /\ isEditing = FALSE
    /\ editingId = 0
    /\ customDaysOwner = 0
    /\ nextId = 2
    /\ isSelectionMode = FALSE
    /\ selectedIds = {}
    /\ fireLog = << >>
    /\ lastTick = "none"
    /\ clockMonotone = TRUE
    /\ ev = NoEval

(***************************************************************************)
(* triggerAlarm: the part that runs inside the caller, up to the first     *)
(* await.  st carries the banner and the list of awaiting calls.           *)
(***************************************************************************)
MutThemeInverted(style) == style = "system"

ThemeStyle(style) == style = "theme"

triggerAlarmStart(alarm, st) ==
    LET body == BodyOf(alarm)
        frame == [NoFrame EXCEPT !.alarm = alarm.id, !.title = Title, !.body = body,
                                 !.style = notificationStyle,
                                 !.enabledAtCall = alarm.enabled,
                                 !.lastTriggeredAtCall = alarm.lastTriggered]
    IN  IF ThemeStyle(notificationStyle)
        THEN [st EXCEPT !.data = [title |-> Title, body |-> body],
                        !.show = TRUE,
                        !.tasks = Append(@, [frame EXCEPT !.pc = "unminimize",
                                                          !.banner = "plain",
                                                          !.restores = 1])]
        ELSE [st EXCEPT !.tasks = Append(@, [frame EXCEPT !.pc = "send1", !.sends = 1])]

(***************************************************************************)
(* startScheduler: one run of the setInterval callback with reading now.   *)
(***************************************************************************)
TimeMatches(alarm, now) == alarm.hour = now.hour /\ alarm.minute = now.minute

\* what the sweep does with the alarm once triggerAlarm has been called
MutKeepOnceEnabled(alarm, todayStr) == [alarm EXCEPT !.lastTriggered = todayStr]

MutMarksTomorrow(alarm, todayStr) ==
    [alarm EXCEPT !.enabled = IF alarm.repeat.type = "once" THEN FALSE ELSE @,
                  !.lastTriggered = FormatDate(ParseDate(todayStr) + 1)]

MutDisablesAll(alarm, todayStr) ==
    [alarm EXCEPT !.enabled = FALSE, !.lastTriggered = todayStr]

MutNoLastTriggered(alarm, todayStr) ==
    [alarm EXCEPT !.enabled = IF alarm.repeat.type = "once" THEN FALSE ELSE @]

MarkFired(alarm, todayStr) ==
    [alarm EXCEPT !.enabled = IF alarm.repeat.type = "once" THEN FALSE ELSE @,
                  !.lastTriggered = todayStr]

MutSkipsEnabled(alarm) == alarm.enabled

MutNeverSkipped(alarm) == FALSE

\* if (!alarm.enabled) return
Skipped(alarm) == ~alarm.enabled

MutMarkBeforeDelivery(i, now, st) ==
    LET alarm == st.alarms[i]
        todayStr == FormatDate(now.day)
        currentDay == Weekday(now.day)
    IN  IF Skipped(alarm) THEN st
        ELSE IF TimeMatches(alarm, now) /\ ShouldTriggerThrows(alarm)
        THEN [st EXCEPT !.thrown = TRUE]
        ELSE IF TimeMatches(alarm, now) /\ shouldTrigger(alarm, now, todayStr, currentDay)
        THEN LET st1 == triggerAlarmStart(MarkFired(alarm, todayStr), st)
             IN  [st1 EXCEPT !.alarms[i] = MarkFired(alarm, todayStr),
                             !.log = Append(@, [id |-> alarm.id, minute |-> FormatMinute(now),
                                                edited |-> FALSE])]
        ELSE st

\* the body of alarms.value.forEach for the alarm at index i; thrown says that
\* the callback raised an exception
VisitAlarm(i, now, st) ==
    LET alarm == st.alarms[i]
        todayStr == FormatDate(now.day)
        currentDay == Weekday(now.day)
    IN  IF Skipped(alarm) THEN st
        ELSE IF TimeMatches(alarm, now) /\ ShouldTriggerThrows(alarm)
        THEN [st EXCEPT !.thrown = TRUE]
        ELSE IF TimeMatches(alarm, now) /\ shouldTrigger(alarm, now, todayStr, currentDay)
        THEN LET st1 == triggerAlarmStart(alarm, st)
             IN  [st1 EXCEPT !.alarms[i] = MarkFired(alarm, todayStr),
                             !.log = Append(@, [id |-> alarm.id, minute |-> FormatMinute(now),
                                                edited |-> FALSE])]
        ELSE st

RECURSIVE MutSweepBackwards(_, _, _)
MutSweepBackwards(i, now, st) ==
    IF i > Len(st.alarms) THEN st
    ELSE VisitAlarm(i, now, MutSweepBackwards(i + 1, now, st))

\* forEach has no handler: an exception of the callback ends the loop and the
\* timer callback
RECURSIVE SweepFrom(_, _, _)
SweepFrom(i, now, st) ==
    IF i > Len(st.alarms) \/ st.thrown THEN st
    ELSE SweepFrom(i + 1, now, VisitAlarm(i, now, st))

\* lexicographic order of two tuples of numbers of the same length
RECURSIVE TupleLeq(_, _)
TupleLeq(a, b) ==
    IF a = << >> THEN TRUE
    ELSE IF Head(a) # Head(b) THEN Head(a) < Head(b)
    ELSE TupleLeq(Tail(a), Tail(b))

MutNeverSameMinute(currentMinuteStr) == FALSE

SameMinute(currentMinuteStr) == currentMinuteStr = lastRunMinute

Tick(now) ==
    LET currentMinuteStr == FormatMinute(now)
        st == SweepFrom(1, now, [alarms |-> alarms, tasks |-> tasks,
                                 data |-> notificationData,
                                 show |-> showThemeNotification, log |-> fireLog,
                                 thrown |-> FALSE])
    IN  /\ clockMonotone' = (clockMonotone /\
                             (lastRunMinute = << >> \/ TupleLeq(lastRunMinute, currentMinuteStr)))
        /\ IF SameMinute(currentMinuteStr)
           THEN /\ lastTick' = "skip"
                /\ UNCHANGED <<alarms, lastRunMinute, fireLog, notifierVars>>
           ELSE /\ Len(st.log) <= MaxFirings
                /\ Len(st.tasks) <= MaxFirings
                /\ lastRunMinute' = currentMinuteStr
                /\ lastTick' = IF st.thrown THEN "threw" ELSE "sweep"
                /\ alarms' = st.alarms
                /\ tasks' = st.tasks
                /\ notificationData' = st.data
                /\ showThemeNotification' = st.show
                /\ fireLog' = st.log
        /\ UNCHANGED <<notificationStyle, formVars, ev, selectionVars>>

(***************************************************************************)
(* triggerAlarm after its first await: one action per awaited call.  k is  *)
(* the position of the call among the awaiting ones; r is what the awaited *)
(* call returned or that it threw.                                         *)
(***************************************************************************)
RemoveAt(seq, k) == SubSeq(seq, 1, k - 1) \o SubSeq(seq, k + 1, Len(seq))

MutSkipsUnminimize(frame) == [frame EXCEPT !.pc = "show", !.restores = 1]

\* the call goes on to step 3 and calls appWindow.unminimize()
ToRestore(frame) == [frame EXCEPT !.pc = "unminimize", !.restores = 1]

MutRetryRechecks(frame) == [frame EXCEPT !.pc = "query", !.queries = @ + 1]

\* the second sendNotification
ToRetry(frame) == [frame EXCEPT !.pc = "send2", !.sends = @ + 1]


\* the body shown when permission is not granted (line 282)
DeniedBody(body) == body

MutRetryFailPlain(body) == body

\* the body shown by the handler of retryError (line 290)
FailedBody(body) == Annotate(body)

ShowBanner(k, frame, body, kind) ==
    /\ notificationData' = [title |-> frame.title, body |-> body]
    /\ showThemeNotification' = TRUE
    /\ tasks' = [tasks EXCEPT ![k] = ToRestore([frame EXCEPT !.banner = kind])]

\* await sendNotification (line 260) returns or throws
SendReturns(k, ok) ==
    /\ k \in 1..Len(tasks)
    /\ tasks[k].pc = "send1"
    /\ IF ok
       THEN tasks' = [tasks EXCEPT ![k] = ToRestore([@ EXCEPT !.firstSend = "ok"])]
       ELSE tasks' = [tasks EXCEPT ![k] = [@ EXCEPT !.firstSend = "fail",
                                                    !.pc = "query", !.queries = @ + 1]]
    /\ UNCHANGED <<schedVars, notificationStyle, showThemeNotification,
                   notificationData, formVars, ev, selectionVars>>

\* await isPermissionGranted (line 269) returns true or false, or throws
QueryReturns(k, r) ==
    /\ k \in 1..Len(tasks)
    /\ tasks[k].pc = "query"
    /\ CASE r = "true" ->
              /\ tasks' = [tasks EXCEPT ![k] = ToRetry([@ EXCEPT !.permission = "already"])]
              /\ UNCHANGED <<showThemeNotification, notificationData>>
         [] r = "false" ->
              /\ tasks' = [tasks EXCEPT ![k] = [@ EXCEPT !.pc = "request", !.requests = @ + 1]]
              /\ UNCHANGED <<showThemeNotification, notificationData>>
         [] r = "throw" ->
              ShowBanner(k, [tasks[k] EXCEPT !.permission = "error"],
                         FailedBody(tasks[k].body), "annotated")
    /\ UNCHANGED <<schedVars, notificationStyle, formVars, ev, selectionVars>>

\* await requestPermission (line 271) returns a permission state, or throws
RequestReturns(k, r) ==
    /\ k \in 1..Len(tasks)
    /\ tasks[k].pc = "request"
    /\ CASE r = "granted" ->
              /\ tasks' = [tasks EXCEPT ![k] = ToRetry([@ EXCEPT !.permission = "requested"])]
              /\ UNCHANGED <<showThemeNotification, notificationData>>
         [] r \in {"denied", "default"} ->
              LET body == DeniedBody(tasks[k].body)
              IN  ShowBanner(k, [tasks[k] EXCEPT !.permission = "denied"], body,
                             IF body.annotated THEN "annotated" ELSE "plain")
         [] r = "throw" ->
              ShowBanner(k, [tasks[k] EXCEPT !.permission = "error"],
                         FailedBody(tasks[k].body), "annotated")
    /\ UNCHANGED <<schedVars, notificationStyle, formVars, ev, selectionVars>>

\* await sendNotification (line 276), the retry, returns or throws
RetryReturns(k, ok) ==
    /\ k \in 1..Len(tasks)
    /\ tasks[k].pc = "send2"
    /\ IF ok
       THEN /\ tasks' = [tasks EXCEPT ![k] = ToRestore([@ EXCEPT !.retry = "ok"])]
            /\ UNCHANGED <<showThemeNotification, notificationData>>
       ELSE LET body == FailedBody(tasks[k].body)
            IN  ShowBanner(k, [tasks[k] EXCEPT !.retry = "fail"], body,
                           IF body.annotated THEN "annotated" ELSE "plain")
    /\ UNCHANGED <<schedVars, notificationStyle, formVars, ev, selectionVars>>

\* await unminimize / show / setFocus (lines 300-302) returns or throws
WindowReturns(k, ok) ==
    /\ k \in 1..Len(tasks)
    /\ tasks[k].pc \in {"unminimize", "show", "focus"}
    /\ IF ok /\ tasks[k].pc # "focus"
       THEN tasks' = [tasks EXCEPT ![k] =
                         [@ EXCEPT !.pc = IF @ = "unminimize" THEN "show" ELSE "focus",
                                   !.restores = @ + 1]]
       ELSE tasks' = RemoveAt(tasks, k)
    /\ UNCHANGED <<schedVars, notificationStyle, showThemeNotification,
                   notificationData, formVars, ev, selectionVars>>

\* the settings view sets settings.notificationStyle
SetNotificationStyle(style) ==
    /\ notificationStyle # style
    /\ notificationStyle' = style
    /\ UNCHANGED <<schedVars, notifierVars, formVars, ev, selectionVars>>

closeThemeNotification ==
    /\ showThemeNotification
    /\ showThemeNotification' = FALSE
    /\ UNCHANGED <<schedVars, notificationStyle, notificationData, tasks, formVars, ev, selectionVars>>

(***************************************************************************)
(* The alarm list and the editor.  The list is hidden while the editor is  *)
(* open (v-show), the editor's controls exist only while it is open (v-if).*)
(***************************************************************************)
Labels == {"", "Tea"}
CustomDayChoices == {Weekday(BaseDay)}
ShiftDayChoices == {1}

\* alarms.value.findIndex(a => a.id === id), 0 when there is none
RECURSIVE FindFrom(_, _, _)
FindFrom(seq, id, i) ==
    IF i > Len(seq) THEN 0
    ELSE IF seq[i].id = id THEN i
    ELSE FindFrom(seq, id, i + 1)

FindIndex(seq, id) == FindFrom(seq, id, 1)

\* seq.filter(a => a.id !== id)
RECURSIVE FilterOut(_, _)
FilterOut(seq, id) ==
    IF seq = << >> THEN << >>
    ELSE IF Head(seq).id = id THEN FilterOut(Tail(seq), id)
    ELSE <<Head(seq)>> \o FilterOut(Tail(seq), id)

\* history: the alarm with this id is replaced by an edited one, and the log
\* marks the firings that came before the edit
MarkEdited(log, id) ==
    [j \in 1..Len(log) |-> IF log[j].id = id THEN [log[j] EXCEPT !.edited = TRUE]
                                              ELSE log[j]]

\* s.trim() of the labels the model uses
Trim(s) == IF s = " " THEN "" ELSE s

toggleAlarm(id, enabled) ==
    /\ ~isEditing
    /\ ~isSelectionMode
    /\ LET i == FindIndex(alarms, id)
       IN  alarms' = IF i # 0 THEN [alarms EXCEPT ![i].enabled = enabled] ELSE alarms
    /\ UNCHANGED <<lastRunMinute, fireLog, lastTick, clockMonotone, notificationStyle,
                   notifierVars, formVars, ev, selectionVars>>

openAdd(now) ==
    /\ ~isEditing
    /\ ~isSelectionMode
    /\ editingId' = 0
    /\ customDaysOwner' = 0
    /\ form' = [hour |-> now.hour, minute |-> now.minute, label |-> "",
                repeatType |-> "once", customDays |-> << >>,
                shiftStart |-> FormatDate(now.day), shiftWork |-> 1, shiftRest |-> 1]
    /\ isEditing' = TRUE
    /\ UNCHANGED <<schedVars, notificationStyle, notifierVars, nextId, ev, selectionVars>>

MutSpreadShares(owner) == owner

\* [...arr] is a new array: no stored alarm holds it; owner is the alarm that
\* holds arr
Spread(owner) == 0

\* x || 1
OrOne(x) == IF x = 0 THEN 1 ELSE x

openEdit(id, now) ==
    /\ ~isEditing
    /\ ~isSelectionMode
    /\ LET i == FindIndex(alarms, id)
       IN  /\ i # 0
           /\ editingId' = id
           /\ customDaysOwner' = Spread(id)
           /\ form' = [hour |-> alarms[i].hour, minute |-> alarms[i].minute,
                       label |-> alarms[i].label,
                       repeatType |-> alarms[i].repeat.type,
                       customDays |-> alarms[i].repeat.customDays,
                       shiftStart |-> IF alarms[i].repeat.shift.present
                                      THEN alarms[i].repeat.shift.startDate
                                      ELSE FormatDate(now.day),
                       shiftWork |-> IF alarms[i].repeat.shift.present
                                     THEN OrOne(alarms[i].repeat.shift.workDays) ELSE 1,
                       shiftRest |-> IF alarms[i].repeat.shift.present
                                     THEN OrOne(alarms[i].repeat.shift.restDays) ELSE 1]
           /\ isEditing' = TRUE
    /\ UNCHANGED <<schedVars, notificationStyle, notifierVars, nextId, ev, selectionVars>>

\* a control of the editor writes one field of form.value
SetFormField(field, value) ==
    /\ isEditing
    /\ form[field] # value
    /\ form' = [form EXCEPT ![field] = value]
    /\ UNCHANGED <<schedVars, notificationStyle, notifierVars, isEditing, editingId,
                   nextId, customDaysOwner, ev, selectionVars>>

\* arr.indexOf(v), counted from 1; 0 when v is not in arr
RECURSIVE IndexFrom(_, _, _)
IndexFrom(arr, v, i) ==
    IF i > Len(arr) THEN 0
    ELSE IF arr[i] = v THEN i
    ELSE IndexFrom(arr, v, i + 1)

toggleCustomDay(day) ==
    /\ isEditing
    /\ form.repeatType = "custom"
    /\ LET index == IndexFrom(form.customDays, day, 1)
           days == IF index = 0 THEN Append(form.customDays, day)
                                ELSE RemoveAt(form.customDays, index)
           owner == FindIndex(alarms, customDaysOwner)
       IN  \* push and splice change the array itself, for every holder of it
           /\ form' = [form EXCEPT !.customDays = days]
           /\ alarms' = IF owner # 0
                         THEN [alarms EXCEPT ![owner].repeat.customDays = days]
                         ELSE alarms
    /\ UNCHANGED <<lastRunMinute, fireLog, lastTick, clockMonotone, notificationStyle,
                   notifierVars, isEditing, editingId, nextId, customDaysOwner, ev,
                   selectionVars>>

\* the cancel button: isEditing = false
CancelEdit ==
    /\ isEditing
    /\ isEditing' = FALSE
    /\ UNCHANGED <<schedVars, notificationStyle, notifierVars, form, editingId, nextId,
                   customDaysOwner, ev, selectionVars>>

MutSaveKeepsLastTriggered(old, new) == [new EXCEPT !.lastTriggered = old.lastTriggered]

\* alarms.value[index] = alarmData
ReplaceAlarm(old, new) == new

\* What v-model holds for a number input that is empty: the empty string.  It
\* is modelled by a number that is not among the inputs of the model.
EmptyInput == -1000

MutNumberAtLeastOne(x) == IF x = EmptyInput \/ x < 1 THEN 1 ELSE x

\* Number(x) of what the form holds: Number('') is 0
Number(x) == IF x = EmptyInput THEN 0 ELSE x

MutIdOfFirst(editing, fresh) ==
    IF editing # 0 THEN editing ELSE IF alarms = << >> THEN fresh ELSE alarms[1].id

\* editingId.value || crypto.randomUUID()
AlarmId(editing, fresh) == IF editing # 0 THEN editing ELSE fresh

\* limit bounds the length of the store
saveFormWithin(limit) ==
    /\ isEditing
    /\ LET finalLabel == IF Trim(form.label) # "" THEN form.label ELSE DefaultLabel
           alarmData == MkAlarm(AlarmId(editingId, nextId),
                                form.hour, form.minute, finalLabel, TRUE,
                                form.repeatType, form.customDays,
                                IF form.repeatType = "shift"
                                THEN MkShift(form.shiftStart, Number(form.shiftWork),
                                             Number(form.shiftRest))
                                ELSE NoShift,
                                NoDate)
           index == FindIndex(alarms, editingId)
       IN  IF editingId # 0
           THEN /\ alarms' = IF index # 0
                             THEN [alarms EXCEPT ![index] = ReplaceAlarm(@, alarmData)]
                             ELSE alarms
                /\ fireLog' = IF index # 0 THEN MarkEdited(fireLog, editingId) ELSE fireLog
                /\ UNCHANGED nextId
           ELSE /\ Len(alarms) < limit
                /\ nextId <= MaxIds
                /\ alarms' = Append(alarms, alarmData)
                /\ nextId' = nextId + 1
                /\ UNCHANGED fireLog
    /\ isEditing' = FALSE
    \* customDays: form.value.customDays stores the form's array itself
    /\ customDaysOwner' = IF editingId # 0 /\ FindIndex(alarms, editingId) = 0
                           THEN customDaysOwner
                           ELSE AlarmId(editingId, nextId)
    /\ UNCHANGED <<lastRunMinute, lastTick, clockMonotone, notificationStyle,
                   notifierVars, form, editingId, ev, selectionVars>>

saveForm == saveFormWithin(MaxAlarms)

deleteAlarm ==
    /\ isEditing
    /\ editingId # 0
    /\ alarms' = FilterOut(alarms, editingId)
    /\ fireLog' = FilterOut(fireLog, editingId)
    /\ isEditing' = FALSE
    /\ UNCHANGED <<lastRunMinute, lastTick, clockMonotone, notificationStyle,
                   notifierVars, form, editingId, nextId, customDaysOwner, ev,
                   selectionVars>>

(***************************************************************************)
(* Persistence.  JSON text is modelled as the sequence of the <<key, value>>*)
(* pairs of an object, in the order of its properties; JSON.stringify      *)
(* leaves out a property whose value is undefined, and a property that     *)
(* JSON.parse does not find reads as undefined.                            *)
(***************************************************************************)
StringifyShift(shift) ==
    << <<"startDate", shift.startDate>>, <<"workDays", shift.workDays>>,
       <<"restDays", shift.restDays>> >>

StringifyRepeat(repeat) ==
    << <<"type", repeat.type>>, <<"customDays", repeat.customDays>> >>
    \o (IF repeat.shift.present THEN << <<"shift", StringifyShift(repeat.shift)>> >>
                                ELSE << >>)

MutStringifyDropsLastTriggered(alarm) ==
    << <<"id", alarm.id>>, <<"hour", alarm.hour>>, <<"minute", alarm.minute>>,
       <<"label", alarm.label>>, <<"enabled", alarm.enabled>> >>
    \o (IF HasRepeat(alarm) THEN << <<"repeat", StringifyRepeat(alarm.repeat)>> >>
                            ELSE << >>)

\* JSON.stringify of one alarm
StringifyAlarm(alarm) ==
    << <<"id", alarm.id>>, <<"hour", alarm.hour>>, <<"minute", alarm.minute>>,
       <<"label", alarm.label>>, <<"enabled", alarm.enabled>> >>
    \o (IF HasRepeat(alarm) THEN << <<"repeat", StringifyRepeat(alarm.repeat)>> >>
                            ELSE << >>)
    \o (IF alarm.lastTriggered # NoDate
        THEN << <<"lastTriggered", alarm.lastTriggered>> >> ELSE << >>)

\* the object has the property
HasKey(pairs, key) == \E i \in 1..Len(pairs) : pairs[i][1] = key

\* the value of a property the object has
Get(pairs, key) == pairs[CHOOSE i \in 1..Len(pairs) : pairs[i][1] = key][2]

ParseShift(pairs) ==
    MkShift(Get(pairs, "startDate"), Get(pairs, "workDays"), Get(pairs, "restDays"))

ParseRepeat(pairs) ==
    [type |-> Get(pairs, "type"), customDays |-> Get(pairs, "customDays"),
     shift |-> IF HasKey(pairs, "shift") THEN ParseShift(Get(pairs, "shift")) ELSE NoShift]

\* JSON.parse of one alarm
ParseAlarm(pairs) ==
    [id |-> Get(pairs, "id"), hour |-> Get(pairs, "hour"), minute |-> Get(pairs, "minute"),
     label |-> Get(pairs, "label"),
     enabled |-> Get(pairs, "enabled"),
     repeat |-> IF HasKey(pairs, "repeat") THEN ParseRepeat(Get(pairs, "repeat"))
                                           ELSE NoRepeat,
     lastTriggered |-> IF HasKey(pairs, "lastTriggered") THEN Get(pairs, "lastTriggered")
                                                        ELSE NoDate]

\* localStorage.getItem('alarms') when nothing is stored
NoItem == [present |-> FALSE, text |-> << >>]

\* what saveAlarms writes to localStorage for the store
saveAlarms(store) ==
    [present |-> TRUE, text |-> [j \in 1..Len(store) |-> StringifyAlarm(store[j])]]

\* what loadAlarms assigns to alarms.value for the stored item
loadAlarms(stored) ==
    IF stored.present
    THEN [j \in 1..Len(stored.text) |-> ParseAlarm(stored.text[j])]
    ELSE DefaultAlarms

\* The application is closed and started again.  The watcher of alarms has
\* written every state of the store, so the item holds the present store;
\* onMounted loads it and starts the scheduler anew.  The settings are kept,
\* the deliveries under way end with the process.
Restart ==
    /\ alarms' = loadAlarms(saveAlarms(alarms))
    /\ lastRunMinute' = << >>
    /\ lastTick' = "none"
    /\ showThemeNotification' = FALSE
    /\ notificationData' = [title |-> "", body |-> EmptyBody]
    /\ tasks' = << >>
    /\ form' = InitialForm
    /\ isEditing' = FALSE
    /\ editingId' = 0
    /\ customDaysOwner' = 0
    /\ isSelectionMode' = FALSE
    /\ selectedIds' = {}
    /\ UNCHANGED <<fireLog, clockMonotone, notificationStyle, nextId, ev>>

(***************************************************************************)
(* Selection mode of the list.                                             *)
(***************************************************************************)
\* an item emits longpress only while the list is shown and not in selection mode
handleLongPress(id) ==
    /\ ~isEditing
    /\ FindIndex(alarms, id) # 0
    /\ ~isSelectionMode
    /\ isSelectionMode' = TRUE
    /\ selectedIds' = {id}
    /\ UNCHANGED <<schedVars, notificationStyle, notifierVars, formVars, ev>>

\* an item emits select when it is clicked in selection mode
handleSelect(id) ==
    /\ isSelectionMode
    /\ FindIndex(alarms, id) # 0
    /\ selectedIds' = IF id \in selectedIds THEN selectedIds \ {id}
                                            ELSE selectedIds \cup {id}
    /\ UNCHANGED <<schedVars, notificationStyle, notifierVars, formVars, ev,
                   isSelectionMode>>

RECURSIVE MutFilterOutReversed(_, _)
MutFilterOutReversed(seq, ids) ==
    IF seq = << >> THEN << >>
    ELSE IF Head(seq).id \in ids THEN MutFilterOutReversed(Tail(seq), ids)
    ELSE MutFilterOutReversed(Tail(seq), ids) \o <<Head(seq)>>

\* seq.filter(a => !ids.has(a.id))
RECURSIVE FilterOutAll(_, _)
FilterOutAll(seq, ids) ==
    IF seq = << >> THEN << >>
    ELSE IF Head(seq).id \in ids THEN FilterOutAll(Tail(seq), ids)
    ELSE <<Head(seq)>> \o FilterOutAll(Tail(seq), ids)

\* the floating button in selection mode
deleteSelected ==
    /\ isSelectionMode
    /\ IF selectedIds = {}
       THEN /\ isSelectionMode' = FALSE
            /\ UNCHANGED <<alarms, fireLog, selectedIds>>
       ELSE /\ alarms' = FilterOutAll(alarms, selectedIds)
            /\ fireLog' = FilterOutAll(fireLog, selectedIds)
            /\ isSelectionMode' = FALSE
            /\ selectedIds' = {}
    /\ UNCHANGED <<lastRunMinute, lastTick, clockMonotone, notificationStyle,
                   notifierVars, formVars, ev>>

\* a click on the list's background in selection mode
cancelSelection ==
    /\ isSelectionMode
    /\ isSelectionMode' = FALSE
    /\ selectedIds' = {}
    /\ UNCHANGED <<schedVars, notificationStyle, notifierVars, formVars, ev>>

(***************************************************************************)
(* Specifications.                                                         *)
(***************************************************************************)
\* the timer: setInterval(..., 1000)
SchedulerStep == \E now \in Readings : Tick(now)

\* the awaited calls of the notifier return
NotifierStep ==
    \E k \in 1..MaxFirings :
        \/ \E ok \in BOOLEAN : SendReturns(k, ok)
        \/ \E r \in {"true", "false", "throw"} : QueryReturns(k, r)
        \/ \E r \in {"granted", "denied", "default", "throw"} : RequestReturns(k, r)
        \/ \E ok \in BOOLEAN : RetryReturns(k, ok)
        \/ \E ok \in BOOLEAN : WindowReturns(k, ok)

SettingsStep ==
    \/ \E style \in {"system", "theme"} : SetNotificationStyle(style)
    \/ closeThemeNotification

\* the user works on the list and in the editor
ListStep ==
    \/ \E id \in 1..MaxIds, enabled \in BOOLEAN : toggleAlarm(id, enabled)
    \/ \E now \in Readings : openAdd(now)
    \/ \E id \in 1..MaxIds, now \in Readings : openEdit(id, now)

EditorStep ==
    \/ \E t \in {"once", "daily"} : SetFormField("repeatType", t)
    \/ saveForm
    \/ CancelEdit
    \/ deleteAlarm

EditorDetailStep ==
    \/ \E h \in Hours : SetFormField("hour", h)
    \/ \E m \in Minutes : SetFormField("minute", m)
    \/ \E t \in RepeatTypes : SetFormField("repeatType", t)
    \/ \E l \in Labels : SetFormField("label", l)
    \/ \E d \in CustomDayChoices : toggleCustomDay(d)
    \/ \E d \in Days : SetFormField("shiftStart", FormatDate(d))
    \/ \E n \in ShiftDayChoices : SetFormField("shiftWork", n)
    \/ \E n \in ShiftDayChoices : SetFormField("shiftRest", n)

SelectionStep ==
    \/ \E id \in 1..MaxIds : handleLongPress(id)
    \/ \E id \in 1..MaxIds : handleSelect(id)
    \/ deleteSelected
    \/ cancelSelection

Next == SchedulerStep \/ NotifierStep \/ SettingsStep \/ ListStep \/ EditorStep
            \/ EditorDetailStep \/ SelectionStep

Spec == Init /\ [][Next]_vars

\* the scheduler and the alarm store: the timer and the user's edits
SchedNext == SchedulerStep \/ ListStep \/ EditorStep

SchedSpec == Init /\ [][SchedNext]_vars

\* the scheduler and the notifier: the timer, the awaited calls, the settings;
\* loadAlarms finds a stored list of two alarms
StoredAlarms ==
    { << MkAlarm(1, 8, MinuteBase, "WakeUpDrinkWater", TRUE, "daily", << >>, NoShift, NoDate),
         MkAlarm(2, 8, m, "", TRUE, "once", << >>, NoShift, NoDate) >> : m \in Minutes }

NotifyInit ==
    /\ alarms \in StoredAlarms
    /\ lastRunMinute = << >>
    /\ notificationStyle = "system"
    /\ showThemeNotification = FALSE
    /\ notificationData = [title |-> "", body |-> EmptyBody]
    /\ tasks = << >>
    /\ form = InitialForm
    /\ isEditing = FALSE
    /\ editingId = 0
    /\ customDaysOwner = 0
    /\ nextId = 3
    /\ isSelectionMode = FALSE
    /\ selectedIds = {}
    /\ fireLog = << >>
    /\ lastTick = "none"
    /\ clockMonotone = TRUE
    /\ ev = NoEval

NotifyNext == SchedulerStep \/ NotifierStep \/ SettingsStep

NotifySpec == NotifyInit /\ [][NotifyNext]_vars

\* the store under every operation that writes it: the editor with a store of
\* up to MaxStore alarms, the list's switch, selection mode, and the timer;
\* the clock stays within the first minute
MaxStore == 2

CrudReadings == {now \in Readings : now.day = BaseDay /\ now.minute = MinuteBase}

CrudEditorStep ==
    \/ \E t \in {"once", "daily"} : SetFormField("repeatType", t)
    \/ saveFormWithin(MaxStore)
    \/ CancelEdit
    \/ deleteAlarm

CrudSchedulerStep == \E now \in CrudReadings : Tick(now)

CrudListStep ==
    \/ \E id \in 1..MaxIds, enabled \in BOOLEAN : toggleAlarm(id, enabled)
    \/ \E now \in CrudReadings : openAdd(now)
    \/ \E id \in 1..MaxIds, now \in CrudReadings : openEdit(id, now)

CrudNext == CrudSchedulerStep \/ CrudListStep \/ CrudEditorStep \/ SelectionStep

CrudSpec == Init /\ [][CrudNext]_vars

\* the store and its persistence: the editor with the rules that use the
\* optional fields, the list's switch, the timer and restarts
PersistEditorStep ==
    \/ \E t \in {"custom", "shift"} : SetFormField("repeatType", t)
    \/ \E d \in CustomDayChoices : toggleCustomDay(d)
    \/ saveFormWithin(MaxStore)
    \/ deleteAlarm

PersistNext == CrudSchedulerStep \/ CrudListStep \/ PersistEditorStep \/ Restart

PersistSpec == Init /\ [][PersistNext]_vars

\* the editor of a Shift rule with what its number inputs can hold, the
\* list's switch and the timer
ShiftInputs == {-1, 0, 1, 2, EmptyInput}

ShiftFormEditorStep ==
    \/ \E t \in {"daily", "shift"} : SetFormField("repeatType", t)
    \/ \E n \in ShiftInputs : SetFormField("shiftWork", n)
    \/ \E n \in ShiftInputs : SetFormField("shiftRest", n)
    \/ saveForm
    \/ deleteAlarm

ShiftFormNext == CrudSchedulerStep \/ CrudListStep \/ ShiftFormEditorStep

ShiftFormSpec == Init /\ [][ShiftFormNext]_vars

\* the editor of the alarm's time: the form's minute, the Once rule, save and
\* cancel, with a store of up to MaxStore alarms, the list's switch, and the
\* timer within one day
EditReadings == {now \in Readings : now.day = BaseDay}

EditSchedulerStep == \E now \in EditReadings : Tick(now)

EditListStep ==
    \/ \E id \in 1..MaxIds, enabled \in BOOLEAN : toggleAlarm(id, enabled)
    \/ \E now \in EditReadings : openAdd(now)
    \/ \E id \in 1..MaxIds, now \in EditReadings : openEdit(id, now)

EditEditorStep ==
    \/ SetFormField("repeatType", "once")
    \/ \E m \in Minutes : SetFormField("minute", m)
    \/ saveFormWithin(MaxStore)
    \/ CancelEdit

EditNext == EditSchedulerStep \/ EditListStep \/ EditEditorStep

EditSpec == Init /\ [][EditNext]_vars

\* the editor of a Custom rule: the day buttons and the other controls of the
\* form, save and cancel, with a store of up to MaxStore alarms, and the timer
FormListStep ==
    \/ \E now \in CrudReadings : openAdd(now)
    \/ \E id \in 1..MaxIds, now \in CrudReadings : openEdit(id, now)

FormEditorStep ==
    \/ SetFormField("repeatType", "custom")
    \/ \E l \in Labels : SetFormField("label", l)
    \/ \E d \in CustomDayChoices \cup {0} : toggleCustomDay(d)
    \/ saveFormWithin(MaxStore)
    \/ CancelEdit

FormNext == CrudSchedulerStep \/ FormListStep \/ FormEditorStep

FormSpec == Init /\ [][FormNext]_vars

\* the list with a stored list of three alarms: the switches, selection mode,
\* the editor's delete and cancel buttons, and the timer within one day
ListStoredAlarms ==
    << MkAlarm(1, 8, MinuteBase, "WakeUpDrinkWater", TRUE, "daily", << >>, NoShift, NoDate),
       MkAlarm(2, 8, MinuteBase, "Tea", TRUE, "once", << >>, NoShift, NoDate),
       MkAlarm(3, 8, MinuteBase, "Walk", TRUE, "daily", << >>, NoShift, NoDate) >>

ListInit ==
    /\ alarms = ListStoredAlarms
    /\ lastRunMinute = << >>
    /\ notificationStyle = "system"
    /\ showThemeNotification = FALSE
    /\ notificationData = [title |-> "", body |-> EmptyBody]
    /\ tasks = << >>
    /\ form = InitialForm
    /\ isEditing = FALSE
    /\ editingId = 0
    /\ customDaysOwner = 0
    /\ nextId = 4
    /\ isSelectionMode = FALSE
    /\ selectedIds = {}
    /\ fireLog = << >>
    /\ lastTick = "none"
    /\ clockMonotone = TRUE
    /\ ev = NoEval

ListSwitchStep ==
    \/ \E id \in 1..MaxIds, enabled \in BOOLEAN : toggleAlarm(id, enabled)
    \/ \E id \in 1..MaxIds, now \in CrudReadings : openEdit(id, now)

ListEditorStep ==
    \/ CancelEdit
    \/ deleteAlarm

ListNext == CrudSchedulerStep \/ ListSwitchStep \/ ListEditorStep \/ SelectionStep

ListSpec == ListInit /\ [][ListNext]_vars

\* the scheduler over a stored list that loadAlarms takes as it is: JSON.parse
\* does not validate, so a record may lack its repeat object, and a Shift rule
\* may have a cycle of zero days
StoredRecords(id, m) ==
    { [MkAlarm(id, 8, m, "Tea", TRUE, "daily", << >>, NoShift, NoDate)
          EXCEPT !.repeat = NoRepeat],
      MkAlarm(id, 8, m, "Tea", TRUE, "shift", << >>,
              MkShift(FormatDate(BaseDay), 0, 0), NoDate),
      MkAlarm(id, 8, m, "Tea", TRUE, "daily", << >>, NoShift, NoDate) }

LoadedStores ==
    { <<a, b>> : a \in StoredRecords(1, MinuteBase),
                 b \in UNION {StoredRecords(2, m) : m \in Minutes} }

StoreInit ==
    /\ alarms \in LoadedStores
    /\ lastRunMinute = << >>
    /\ notificationStyle = "system"
    /\ showThemeNotification = FALSE
    /\ notificationData = [title |-> "", body |-> EmptyBody]
    /\ tasks = << >>
    /\ form = InitialForm
    /\ isEditing = FALSE
    /\ editingId = 0
    /\ customDaysOwner = 0
    /\ nextId = 3
    /\ isSelectionMode = FALSE
    /\ selectedIds = {}
    /\ fireLog = << >>
    /\ lastTick = "none"
    /\ clockMonotone = TRUE
    /\ ev = NoEval

\* the switch of a list item
ToggleStep == \E id \in 1..MaxIds, enabled \in BOOLEAN : toggleAlarm(id, enabled)

StoreNext == SchedulerStep \/ ToggleStep

StoreSpec == StoreInit /\ [][StoreNext]_vars

(***************************************************************************)
(* The recurrence evaluator alone: one call of shouldTrigger on inputs     *)
(* drawn from bounded sets.                                                *)
(***************************************************************************)
EvalDays == (BaseDay - 1) .. (BaseDay + MaxEvalDay)
EvalHours == {0, 8, 23}
EvalMinutes == {0, 59}
EvalSeconds == {0, 59}
EvalReadings == [day : EvalDays, hour : EvalHours, minute : EvalMinutes, second : EvalSeconds]
EvalDates == {FormatDate(d) : d \in EvalDays}

\* the arrays of weekdays the evaluator is tried on: at most two days, ascending
EvalCustomDays ==
    {<< >>} \cup {<<a>> : a \in 0..6} \cup {<<a, b>> : a \in 0..5, b \in 6..6}
            \cup {<<1, 2, 3, 4, 5>>}

EvalAlarms ==
    {MkAlarm(1, 8, 0, "Tea", TRUE, t, << >>, NoShift, lt) :
        t \in {"once", "daily", "workdays", "mon_sat"}, lt \in {NoDate} \cup EvalDates}
    \cup {MkAlarm(1, 8, 0, "Tea", TRUE, "custom", cd, NoShift, lt) :
             cd \in EvalCustomDays, lt \in {NoDate, FormatDate(BaseDay)}}
    \cup {MkAlarm(1, 8, 0, "Tea", TRUE, "shift", << >>, MkShift(sd, w, r), lt) :
             sd \in EvalDates, w \in 0..MaxShiftDays, r \in 0..MaxShiftDays,
             lt \in {NoDate, FormatDate(BaseDay)}}

EvalInit ==
    /\ alarms = DefaultAlarms
    /\ lastRunMinute = << >>
    /\ notificationStyle = "system"
    /\ showThemeNotification = FALSE
    /\ notificationData = [title |-> "", body |-> EmptyBody]
    /\ tasks = << >>
    /\ form = InitialForm
    /\ isEditing = FALSE
    /\ editingId = 0
    /\ customDaysOwner = 0
    /\ nextId = 2
    /\ isSelectionMode = FALSE
    /\ selectedIds = {}
    /\ fireLog = << >>
    /\ lastTick = "none"
    /\ clockMonotone = TRUE
    /\ ev \in [alarm : EvalAlarms, now : EvalReadings, done : {FALSE}, result : {FALSE}]

\* the scheduler's call: shouldTrigger(alarm, now, todayStr, currentDay)
Evaluate ==
    /\ ~ev.done
    /\ ev' = [ev EXCEPT !.done = TRUE,
                        !.result = shouldTrigger(ev.alarm, ev.now, FormatDate(ev.now.day),
                                                 Weekday(ev.now.day))]
    /\ UNCHANGED <<schedVars, notificationStyle, notifierVars, formVars, selectionVars>>

EvalNext == Evaluate

EvalSpec == EvalInit /\ [][EvalNext]_vars


(***************************************************************************)
(* Properties.                                                             *)
(***************************************************************************)
\* triggerAlarm is called for the alarm with this id in the step
FiredNow(id) ==
    \E j \in (Len(fireLog) + 1)..Len(fireLog') : fireLog'[j].id = id

\* how often the log holds the firing (id, minute)
CountFirings(log, id, minute) ==
    Cardinality({j \in 1..Len(log) : log[j].id = id /\ log[j].minute = minute})

\* the alarm is enabled, its time is that of the reading and its rule qualifies
Due(alarm, now) ==
    /\ alarm.enabled
    /\ TimeMatches(alarm, now)
    /\ shouldTrigger(alarm, now, FormatDate(now.day), Weekday(now.day))

\* the step is a user operation that can enable an alarm
EnablingOperation ==
    \/ saveForm
    \/ \E id \in 1..MaxIds : toggleAlarm(id, TRUE)

(* C1: a Once alarm that a sweep fires is disabled at the end of that sweep; *)
(* a sweep never fires a disabled alarm nor changes it, and an alarm that is *)
(* disabled becomes enabled only by toggleAlarm or saveForm.                 *)
C1_OnceDisabledAfterFiring ==
    [][ /\ \A now \in Readings : Tick(now) =>
              \A i \in 1..Len(alarms) :
                  /\ (alarms[i].repeat.type = "once" /\ FiredNow(alarms[i].id))
                         => ~alarms'[i].enabled
                  /\ ~alarms[i].enabled
                         => (~FiredNow(alarms[i].id) /\ alarms'[i] = alarms[i])
        /\ \A i \in 1..Len(alarms), j \in 1..Len(alarms') :
              (alarms[i].id = alarms'[j].id /\ ~alarms[i].enabled /\ alarms'[j].enabled)
                  => EnablingOperation
      ]_vars

\* a Once alarm has fired once and is disabled, and a sweep of a later day at
\* its time has left it alone
C1_Witness ==
    \E i \in 1..Len(alarms) :
        /\ alarms[i].repeat.type = "once"
        /\ ~alarms[i].enabled
        /\ alarms[i].lastTriggered # NoDate
        /\ lastTick = "sweep"
        /\ Len(lastRunMinute) = 5
        /\ SubSeq(lastRunMinute, 1, 3) # alarms[i].lastTriggered
        /\ lastRunMinute[4] = alarms[i].hour
        /\ lastRunMinute[5] = alarms[i].minute
        /\ Cardinality({j \in 1..Len(fireLog) : fireLog[j].id = alarms[i].id}) = 1

(* C2: a tick whose reading formats to the minute of the tick before it      *)
(* performs no sweep: it fires no alarm and changes neither the store, the   *)
(* awaiting deliveries, the banner nor the processed minute.                 *)
C2_SameMinuteTickIsNoOp ==
    [][ \A now \in Readings :
            (Tick(now) /\ FormatMinute(now) = lastRunMinute) =>
                /\ alarms' = alarms
                /\ fireLog' = fireLog
                /\ tasks' = tasks
                /\ notificationData' = notificationData
                /\ showThemeNotification' = showThemeNotification
                /\ lastRunMinute' = lastRunMinute
      ]_vars

\* a sweep has fired an alarm, and a second tick of the same minute followed
C2_Witness ==
    /\ lastTick = "skip"
    /\ fireLog # << >>
    /\ fireLog[Len(fireLog)].minute = lastRunMinute
    /\ \E i \in 1..Len(alarms) : alarms[i].id = fireLog[Len(fireLog)].id /\ alarms[i].enabled

\* two firings of one alarm for one minute, with no edit of the alarm since the first
FiredTwice ==
    \E j1, j2 \in 1..Len(fireLog) :
        /\ j1 < j2
        /\ fireLog[j1].id = fireLog[j2].id
        /\ fireLog[j1].minute = fireLog[j2].minute
        /\ ~fireLog[j1].edited

(* C3 as claimed: over any sequence of ticks and clock readings, no alarm is *)
(* fired twice for the same wall-clock minute with no edit of it in between. *)
C3_AtMostOncePerMinute == ~FiredTwice

(* C3 as amended: while no tick has read an earlier minute than the tick     *)
(* before it, no alarm is fired twice for the same wall-clock minute with no *)
(* edit of it in between.                                                    *)
C3_AtMostOncePerMinuteMonotone == clockMonotone => ~FiredTwice

\* under a clock that never went back, one alarm has fired in two minutes and
\* a further tick of the second minute has been skipped
C3_Witness ==
    /\ clockMonotone
    /\ Len(fireLog) = 2
    /\ fireLog[1].id = fireLog[2].id
    /\ fireLog[1].minute # fireLog[2].minute
    /\ lastTick = "skip"

(* C4 as claimed: at every tick, every alarm of the store that is enabled,   *)
(* whose time is the tick's minute and whose rule qualifies has been fired   *)
(* exactly once for that minute when the tick ends.  The claim is given the  *)
(* benefit of a clock that never goes back: it is stated for the ticks up to *)
(* which no tick has read an earlier minute than the tick before it.         *)
C4_DueFiresExactlyOnce ==
    [][ \A now \in Readings : (Tick(now) /\ clockMonotone') =>
            \A i \in 1..Len(alarms) :
                Due(alarms[i], now) =>
                    CountFirings(fireLog', alarms[i].id, FormatMinute(now)) = 1
      ]_vars

(* C4 as amended: at every tick that sweeps (its minute differs from that of *)
(* the tick before), every alarm of the store that is enabled, whose time is *)
(* the tick's minute and whose rule qualifies is fired exactly once in that  *)
(* sweep, and, if no tick has read an earlier minute than the tick before    *)
(* it, exactly once for that minute.                                         *)
C4_DueAtSweepFiresExactlyOnce ==
    [][ \A now \in Readings :
            (Tick(now) /\ FormatMinute(now) # lastRunMinute) =>
                \A i \in 1..Len(alarms) :
                    Due(alarms[i], now) =>
                        /\ Cardinality({j \in (Len(fireLog) + 1)..Len(fireLog') :
                                           fireLog'[j].id = alarms[i].id}) = 1
                        /\ clockMonotone' =>
                               CountFirings(fireLog', alarms[i].id, FormatMinute(now)) = 1
      ]_vars

\* a sweep has just fired an alarm that was due, under a clock that never went back
C4_Witness ==
    /\ lastTick = "sweep"
    /\ clockMonotone
    /\ \E i \in 1..Len(alarms) :
           /\ CountFirings(fireLog, alarms[i].id, lastRunMinute) = 1
           /\ alarms[i].lastTriggered = SubSeq(lastRunMinute, 1, 3)

(* C5 as claimed: for a Shift rule, shouldTrigger returns false at every     *)
(* reading whose calendar date precedes startDate, at every time of day.     *)
C5_ShiftNeverBeforeStart ==
    (/\ ev.done
     /\ ev.alarm.repeat.type = "shift"
     /\ ev.alarm.repeat.shift.present
     /\ ev.now.day < ParseDate(ev.alarm.repeat.shift.startDate))
        => ev.result = FALSE

\* the day of the reading less the day of startDate
DaysSinceStart == ev.now.day - ParseDate(ev.alarm.repeat.shift.startDate)

(* C6: for a Shift rule with workDays W >= 1 and restDays R >= 1, on the     *)
(* date startDate + k with k >= 0 shouldTrigger returns true iff             *)
(* k mod (W + R) < W, at every time of day; with W = 2 and R = 1 the days    *)
(* k = 0..4 are on, on, off, on, on.                                         *)
C6_ShiftCycle ==
    (/\ ev.done
     /\ ev.alarm.repeat.type = "shift"
     /\ ev.alarm.repeat.shift.present
     /\ ev.alarm.repeat.shift.workDays >= 1
     /\ ev.alarm.repeat.shift.restDays >= 1
     /\ DaysSinceStart >= 0)
        => LET W == ev.alarm.repeat.shift.workDays
               R == ev.alarm.repeat.shift.restDays
           IN  /\ ev.result = ((DaysSinceStart % (W + R)) < W)
               /\ DaysSinceStart = 0 => ev.result = TRUE
               /\ (W = 2 /\ R = 1 /\ DaysSinceStart <= 4)
                     => ev.result = <<TRUE, TRUE, FALSE, TRUE, TRUE>>[DaysSinceStart + 1]

\* the rest day of a 2-on 1-off cycle, evaluated late in the evening: no firing
C6_Witness ==
    /\ ev.done
    /\ ev.alarm.repeat.type = "shift"
    /\ ev.alarm.repeat.shift.workDays = 2
    /\ ev.alarm.repeat.shift.restDays = 1
    /\ DaysSinceStart = 2
    /\ ev.now.hour = 23
    /\ ev.result = FALSE

\* the awaiting calls that have reached step 3, the window restore
Restoring == {k \in 1..Len(tasks) : tasks[k].pc \in {"unminimize", "show", "focus"}}

(* C7 as claimed: with style 'system', the first send failed and permission  *)
(* not granted, already or on request, the call shows the banner with the    *)
(* body annotated as a system failure.                                       *)
C7_DeniedBannerAnnotated ==
    \A k \in Restoring :
        (tasks[k].style = "system" /\ tasks[k].firstSend = "fail"
            /\ tasks[k].permission = "denied")
          => tasks[k].banner = "annotated"

(* C8: when the first send failed and permission is granted, already or on   *)
(* request, the send is retried exactly once; after a retry that succeeded   *)
(* the call has shown no banner, after one that failed it has shown the      *)
(* banner with the annotated body.                                           *)
C8_RetryOnGrant ==
    /\ \A k \in 1..Len(tasks) :
          tasks[k].pc = "send2" =>
              /\ tasks[k].sends = 2
              /\ tasks[k].firstSend = "fail"
              /\ tasks[k].permission \in {"already", "requested"}
              /\ tasks[k].banner = "none"
    /\ \A k \in Restoring :
          (tasks[k].firstSend = "fail" /\ tasks[k].permission \in {"already", "requested"})
            => /\ tasks[k].sends = 2
               /\ tasks[k].retry \in {"ok", "fail"}
               /\ tasks[k].retry = "ok" => tasks[k].banner = "none"
               /\ tasks[k].retry = "fail" => tasks[k].banner = "annotated"
    /\ \A k \in Restoring : tasks[k].permission \in {"denied", "error"} => tasks[k].sends = 1

\* permission was granted on request, the retry failed, and the banner shows
\* the annotated body of that call
C8_Witness ==
    \E k \in Restoring :
        /\ tasks[k].permission = "requested"
        /\ tasks[k].retry = "fail"
        /\ tasks[k].banner = "annotated"
        /\ showThemeNotification
        /\ notificationData = [title |-> tasks[k].title, body |-> Annotate(tasks[k].body)]

\* the awaited calls of triggerAlarm, in the order the code reaches them
PcRank(pc) ==
    CASE pc = "send1" -> 1
      [] pc = "query" -> 2
      [] pc = "request" -> 3
      [] pc = "send2" -> 4
      [] pc = "unminimize" -> 5
      [] pc = "show" -> 6
      [] pc = "focus" -> 7

(* C9: one call of triggerAlarm makes at most two system sends, one          *)
(* permission query and one permission request, whatever the awaited calls   *)
(* return; and it finishes: it always awaits a call whose return resumes it, *)
(* and every return moves it to a later awaited call or ends it.             *)
C9_BoundedDelivery ==
    /\ [](\A k \in 1..Len(tasks) :
             /\ tasks[k].sends <= 2
             /\ tasks[k].queries <= 1
             /\ tasks[k].requests <= 1
             /\ tasks[k].restores <= 3
             /\ ENABLED (\/ \E ok \in BOOLEAN : SendReturns(k, ok)
                         \/ \E r \in {"true", "false", "throw"} : QueryReturns(k, r)
                         \/ \E r \in {"granted", "denied", "default", "throw"} :
                                RequestReturns(k, r)
                         \/ \E ok \in BOOLEAN : RetryReturns(k, ok)
                         \/ \E ok \in BOOLEAN : WindowReturns(k, ok)))
    /\ [][ /\ Len(tasks') = Len(tasks) =>
                \A k \in 1..Len(tasks) :
                    tasks'[k] # tasks[k] => PcRank(tasks'[k].pc) > PcRank(tasks[k].pc)
           /\ Len(tasks') > Len(tasks) =>
                \A k \in 1..Len(tasks) : tasks'[k] = tasks[k]
         ]_vars

\* a call has used everything it may: two sends, a query, a request, and is
\* at its last window call
C9_Witness ==
    \E k \in 1..Len(tasks) :
        /\ tasks[k].sends = 2
        /\ tasks[k].queries = 1
        /\ tasks[k].requests = 1
        /\ tasks[k].restores = 3
        /\ tasks[k].pc = "focus"

(* C10: a call of triggerAlarm made while the style setting is 'theme' makes *)
(* no system send, no permission query and no permission request; it shows   *)
(* the banner with the title and the body rendered from the alarm, not       *)
(* annotated, and goes on to the window restore.                             *)
C10_ThemeSkipsSystem ==
    /\ [](\A k \in 1..Len(tasks) :
             tasks[k].style = "theme" =>
                 /\ tasks[k].sends = 0
                 /\ tasks[k].queries = 0
                 /\ tasks[k].requests = 0
                 /\ tasks[k].banner = "plain"
                 /\ tasks[k].pc \in {"unminimize", "show", "focus"})
    /\ [][ (notificationStyle = "theme" /\ Len(tasks') > Len(tasks)) =>
              /\ showThemeNotification'
              /\ notificationData' = [title |-> Title, body |-> tasks'[Len(tasks')].body]
              /\ \A k \in (Len(tasks) + 1)..Len(tasks') :
                    /\ tasks'[k].style = "theme"
                    /\ \E i \in 1..Len(alarms) :
                          /\ alarms[i].id = tasks'[k].alarm
                          /\ tasks'[k].body = BodyOf(alarms[i])
                          /\ ~tasks'[k].body.annotated
         ]_vars

\* a call made under the 'theme' style awaits the window, its banner on display
C10_Witness ==
    \E k \in 1..Len(tasks) :
        /\ tasks[k].style = "theme"
        /\ tasks[k].pc = "show"
        /\ showThemeNotification
        /\ notificationData = [title |-> Title, body |-> tasks[k].body]

(* C11: what the notifier does never reaches the store.  In every sweep, an *)
(* alarm that is enabled, whose time is the sweep's minute and for which      *)
(* shouldTrigger returns true has lastTriggered equal to the sweep's date     *)
(* when the sweep ends, and is disabled if its rule is Once; triggerAlarm is  *)
(* called only for such alarms and only in a sweep, whatever the state of the *)
(* deliveries; and no return of an awaited call changes the store, the        *)
(* processed minute or the firings.                                           *)
C11_NotifierFailureKeepsMarking ==
    [][ /\ lastRunMinute' # lastRunMinute =>
              \A now \in Readings : FormatMinute(now) = lastRunMinute' =>
                  \A i \in 1..Len(alarms) :
                      /\ Due(alarms[i], now) =>
                            /\ alarms'[i].lastTriggered = FormatDate(now.day)
                            /\ alarms[i].repeat.type = "once" => ~alarms'[i].enabled
                      /\ FiredNow(alarms[i].id) => Due(alarms[i], now)
        /\ lastRunMinute' = lastRunMinute => fireLog' = fireLog
        /\ (tasks' # tasks /\ Len(tasks') <= Len(tasks)) =>
              UNCHANGED <<alarms, lastRunMinute, fireLog>>
      ]_vars

\* the delivery of a Once alarm has failed twice and awaits the window; the
\* alarm is disabled and carries the date of the sweep
C11_Witness ==
    \E k \in 1..Len(tasks), i \in 1..Len(alarms) :
        /\ tasks[k].alarm = alarms[i].id
        /\ tasks[k].firstSend = "fail"
        /\ tasks[k].retry = "fail"
        /\ alarms[i].repeat.type = "once"
        /\ ~alarms[i].enabled
        /\ alarms[i].lastTriggered = SubSeq(lastRunMinute, 1, 3)

(* C12: in every sweep, an alarm whose enabled flag is false gets no call of *)
(* triggerAlarm, no delivery is started for it, and the sweep leaves the      *)
(* alarm as it was (enabled and lastTriggered included).                      *)
C12_DisabledNeverFired ==
    [][ lastRunMinute' # lastRunMinute =>
            \A i \in 1..Len(alarms) :
                ~alarms[i].enabled =>
                    /\ ~FiredNow(alarms[i].id)
                    /\ \A k \in (Len(tasks) + 1)..Len(tasks') :
                           tasks'[k].alarm # alarms[i].id
                    /\ Len(alarms') = Len(alarms)
                    /\ alarms'[i] = alarms[i]
      ]_vars

\* a sweep has just run at the time of a disabled daily alarm that has never fired
C12_Witness ==
    /\ lastTick = "sweep"
    /\ \E i \in 1..Len(alarms) :
           /\ ~alarms[i].enabled
           /\ alarms[i].repeat.type = "daily"
           /\ alarms[i].lastTriggered = NoDate
           /\ lastRunMinute[4] = alarms[i].hour
           /\ lastRunMinute[5] = alarms[i].minute
           /\ CountFirings(fireLog, alarms[i].id, lastRunMinute) = 0

(* C13: for a Once alarm, shouldTrigger returns true when lastTriggered is   *)
(* absent or is another date than that of the reading, and false when        *)
(* lastTriggered is the date of the reading.                                  *)
C13_OnceGuard ==
    (ev.done /\ ev.alarm.repeat.type = "once") =>
        /\ ev.alarm.lastTriggered = NoDate => ev.result
        /\ (ev.alarm.lastTriggered # NoDate
              /\ ParseDate(ev.alarm.lastTriggered) # ev.now.day) => ev.result
        /\ (ev.alarm.lastTriggered # NoDate
              /\ ParseDate(ev.alarm.lastTriggered) = ev.now.day) => ~ev.result

\* a Once alarm that fired earlier on the day of the reading is refused
C13_Witness ==
    /\ ev.done
    /\ ev.alarm.repeat.type = "once"
    /\ ev.alarm.lastTriggered # NoDate
    /\ ParseDate(ev.alarm.lastTriggered) = ev.now.day
    /\ ~ev.result

(* C14: for a Workdays rule, shouldTrigger returns true exactly on the       *)
(* weekdays 1..5 (Monday to Friday), 0 being Sunday.                          *)
C14_Workdays ==
    (ev.done /\ ev.alarm.repeat.type = "workdays") =>
        (ev.result <=> Weekday(ev.now.day) \in {1, 2, 3, 4, 5})

\* a Workdays alarm is refused on a Saturday
C14_Witness ==
    /\ ev.done
    /\ ev.alarm.repeat.type = "workdays"
    /\ Weekday(ev.now.day) = 6
    /\ ~ev.result

(* C15: for a Custom rule, shouldTrigger returns true exactly on the         *)
(* weekdays held by customDays; with customDays empty it returns false.      *)
C15_CustomDays ==
    (ev.done /\ ev.alarm.repeat.type = "custom") =>
        LET S == {ev.alarm.repeat.customDays[i] :
                     i \in 1..Len(ev.alarm.repeat.customDays)}
        IN  /\ ev.result <=> Weekday(ev.now.day) \in S
            /\ S = {} => ~ev.result

\* a Custom alarm for Sunday and Saturday is accepted on a Saturday
C15_Witness ==
    /\ ev.done
    /\ ev.alarm.repeat.type = "custom"
    /\ ev.alarm.repeat.customDays = <<0, 6>>
    /\ Weekday(ev.now.day) = 6
    /\ ev.result

(* C16 as claimed: when the callback of the sweep raises an exception for    *)
(* one alarm, every other alarm of the store that is enabled, whose time is  *)
(* the sweep's minute and whose rule qualifies is still fired in that sweep. *)
C16_FailureIsolated ==
    [][ \A now \in Readings :
            (Tick(now) /\ FormatMinute(now) # lastRunMinute) =>
                \A i \in 1..Len(alarms) :
                    (HasRepeat(alarms[i]) /\ Due(alarms[i], now)) => FiredNow(alarms[i].id)
      ]_vars

\* a Shift rule whose cycle has no days
ZeroCycle(alarm) ==
    /\ alarm.repeat.type = "shift"
    /\ alarm.repeat.shift.present
    /\ alarm.repeat.shift.workDays + alarm.repeat.shift.restDays = 0

\* the callback raises an exception for an alarm visited before the one at j
ThrownBefore(j, now) ==
    \E h \in 1..(j - 1) :
        alarms[h].enabled /\ TimeMatches(alarms[h], now) /\ ShouldTriggerThrows(alarms[h])

(* C17: shouldTrigger returns false for a Shift rule with workDays + restDays *)
(* = 0 at every reading and for every start date; a sweep that visits such   *)
(* an alarm does not fire it, leaves it as it was, and still fires the       *)
(* alarms after it that are enabled, match the minute and qualify.           *)
C17_ZeroCycleShift ==
    /\ [](\A now \in EvalReadings, sd \in EvalDates :
             ~shouldTrigger(MkAlarm(1, now.hour, now.minute, "Tea", TRUE, "shift", << >>,
                                    MkShift(sd, 0, 0), NoDate),
                            now, FormatDate(now.day), Weekday(now.day)))
    /\ [][ \A now \in Readings :
              (Tick(now) /\ FormatMinute(now) # lastRunMinute) =>
                  \A i \in 1..Len(alarms) :
                      ZeroCycle(alarms[i]) =>
                          /\ ~FiredNow(alarms[i].id)
                          /\ alarms'[i] = alarms[i]
                          /\ \A j \in (i + 1)..Len(alarms) :
                                (HasRepeat(alarms[j]) /\ Due(alarms[j], now)
                                   /\ ~ThrownBefore(j, now)) => FiredNow(alarms[j].id)
         ]_vars

\* a sweep at the time of an enabled zero-cycle Shift alarm, on or after its
\* start date, has left it unfired and has fired the alarm after it
C17_Witness ==
    /\ lastTick = "sweep"
    /\ Len(alarms) = 2
    /\ ZeroCycle(alarms[1])
    /\ alarms[1].enabled
    /\ alarms[1].lastTriggered = NoDate
    /\ lastRunMinute[4] = alarms[1].hour
    /\ lastRunMinute[5] = alarms[1].minute
    /\ CountFirings(fireLog, alarms[1].id, lastRunMinute) = 0
    /\ CountFirings(fireLog, alarms[2].id, lastRunMinute) = 1

(* C18: in every state reached from the default store by creating, updating, *)
(* deleting, deleting in bulk, toggling and sweeping, no two alarms of the   *)
(* store have the same id.                                                    *)
C18_UniqueIds ==
    \A i, j \in 1..Len(alarms) : i # j => alarms[i].id # alarms[j].id

\* the demo alarm is gone, the store holds two alarms created by the editor,
\* and a sweep has fired one of them
C18_Witness ==
    /\ Len(alarms) = 2
    /\ alarms[1].label = DefaultLabel
    /\ alarms[2].id > 1
    /\ lastTick = "sweep"
    /\ \E i \in 1..2 : alarms[i].lastTriggered # NoDate

(* C19: a step of the timer or of a delivery it started keeps the store's    *)
(* length and order; of an alarm it changes at most enabled and              *)
(* lastTriggered, and only when the step is a sweep that fires the alarm;    *)
(* enabled changes only to false and only for a Once alarm.                  *)
C19_SweepFrame ==
    [][ (lastRunMinute' # lastRunMinute \/ tasks' # tasks \/ lastTick' = "skip") =>
            /\ Len(alarms') = Len(alarms)
            /\ \A i \in 1..Len(alarms) :
                  /\ [alarms'[i] EXCEPT !.enabled = alarms[i].enabled,
                                        !.lastTriggered = alarms[i].lastTriggered]
                        = alarms[i]
                  /\ alarms'[i] # alarms[i] =>
                        (lastRunMinute' # lastRunMinute /\ FiredNow(alarms[i].id))
                  /\ alarms'[i].enabled # alarms[i].enabled =>
                        (~alarms'[i].enabled /\ alarms[i].repeat.type = "once")
      ]_vars

\* a sweep has fired a daily and a Once alarm; the delivery of one has failed
\* and shown the banner, that of the other has ended
C19_Witness ==
    /\ Len(alarms) = 2
    /\ alarms[1].repeat.type = "daily"
    /\ alarms[1].enabled
    /\ alarms[1].lastTriggered # NoDate
    /\ alarms[2].repeat.type = "once"
    /\ ~alarms[2].enabled
    /\ alarms[2].lastTriggered = alarms[1].lastTriggered
    /\ Len(fireLog) = 2
    /\ Len(tasks) = 1
    /\ tasks[1].banner = "annotated"
    /\ tasks[1].pc = "focus"

(* C20: for every store reached by creating, updating, deleting, toggling    *)
(* and sweeping, loading what saveAlarms writes gives the same alarms in the *)
(* same order, equal field for field.                                        *)
C20_RoundTrip ==
    /\ loadAlarms(saveAlarms(alarms)) = alarms
    /\ \A i \in 1..Len(alarms) :
          LET loaded == loadAlarms(saveAlarms(alarms))[i]
          IN  /\ loaded.id = alarms[i].id
              /\ loaded.hour = alarms[i].hour
              /\ loaded.minute = alarms[i].minute
              /\ loaded.label = alarms[i].label
              /\ loaded.enabled = alarms[i].enabled
              /\ loaded.repeat.type = alarms[i].repeat.type
              /\ loaded.repeat.customDays = alarms[i].repeat.customDays
              /\ loaded.repeat.shift = alarms[i].repeat.shift
              /\ loaded.lastTriggered = alarms[i].lastTriggered

\* after a restart the store holds a disabled Once alarm that has fired and a
\* Shift alarm that has not
C20_Witness ==
    /\ lastTick = "none"
    /\ fireLog # << >>
    /\ Len(alarms) = 2
    /\ \E i, j \in 1..2 :
          /\ alarms[i].repeat.type = "once"
          /\ ~alarms[i].enabled
          /\ alarms[i].lastTriggered # NoDate
          /\ alarms[j].repeat.type = "shift"
          /\ alarms[j].repeat.shift.present
          /\ alarms[j].lastTriggered = NoDate

(* C21 as claimed: the delivery of a fired alarm runs to its end before the  *)
(* sweep goes on to the next alarm.  Then a sweep leaves at most one of the  *)
(* deliveries it started awaiting a call when it ends.                       *)
C21_DeliveriesSequential ==
    [][ Len(tasks') <= Len(tasks) + 1 ]_vars

(* C22 as claimed: what a firing presents does not depend on other firings.  *)
(* Every delivery that a sweep starts by showing the banner has its own body *)
(* on the banner when the sweep ends, and a banner on display is not         *)
(* replaced by other content while it stays on display.                      *)
C22_FiringsIndependent ==
    [][ /\ \A k \in (Len(tasks) + 1)..Len(tasks') :
              tasks'[k].banner # "none" =>
                  notificationData' = [title |-> tasks'[k].title, body |-> tasks'[k].body]
        /\ (showThemeNotification /\ showThemeNotification') =>
              notificationData' = notificationData
      ]_vars

(* C23: when a sweep fires an alarm, triggerAlarm is called, and issues the  *)
(* first system send or shows the banner, while the alarm still has the      *)
(* enabled flag and the lastTriggered date it had before the sweep; the      *)
(* alarm carries the sweep's date, and is disabled if it is a Once alarm,    *)
(* when the sweep ends.                                                      *)
C23_UpdateAfterDelivery ==
    [][ \A k \in (Len(tasks) + 1)..Len(tasks') :
            \E i \in 1..Len(alarms) :
                /\ alarms[i].id = tasks'[k].alarm
                /\ tasks'[k].enabledAtCall = alarms[i].enabled
                /\ tasks'[k].enabledAtCall
                /\ tasks'[k].lastTriggeredAtCall = alarms[i].lastTriggered
                /\ tasks'[k].sends = 1 \/ tasks'[k].banner # "none"
                /\ alarms'[i].lastTriggered = SubSeq(lastRunMinute', 1, 3)
                /\ alarms[i].repeat.type = "once" => ~alarms'[i].enabled
      ]_vars

\* the delivery of a Once alarm is under way: it was called for the enabled,
\* never-fired alarm, which is now disabled and dated
C23_Witness ==
    \E k \in 1..Len(tasks), i \in 1..Len(alarms) :
        /\ alarms[i].id = tasks[k].alarm
        /\ alarms[i].repeat.type = "once"
        /\ tasks[k].enabledAtCall
        /\ tasks[k].lastTriggeredAtCall = NoDate
        /\ tasks[k].pc = "send1"
        /\ ~alarms[i].enabled
        /\ alarms[i].lastTriggered # NoDate

\* the awaited calls of the delivery step and of the window restore
DeliveryCalls == {"send1", "query", "request", "send2"}
RestoreCalls == {"unminimize", "show", "focus"}

(* C24: on every path, a call of triggerAlarm that leaves its delivery step  *)
(* requests unminimize, then show, then focus; a call starts either in the   *)
(* delivery step or, the banner shown, at unminimize; a call ends only in    *)
(* the restore, and neither a return nor a failure of a restore call changes *)
(* the banner, its content, the delivery's record or any alarm.              *)
C24_RestoreAfterDelivery ==
    [][ /\ \A k \in (Len(tasks) + 1)..Len(tasks') :
              \/ tasks'[k].pc = "send1" /\ tasks'[k].restores = 0
              \/ tasks'[k].pc = "unminimize" /\ tasks'[k].restores = 1
                    /\ tasks'[k].banner # "none"
        /\ Len(tasks') = Len(tasks) =>
              \A k \in 1..Len(tasks) :
                  /\ (tasks[k].pc \in DeliveryCalls /\ tasks'[k].pc \notin DeliveryCalls)
                        => (tasks'[k].pc = "unminimize" /\ tasks'[k].restores = 1)
                  /\ (tasks[k].pc \in RestoreCalls /\ tasks'[k] # tasks[k]) =>
                        /\ tasks'[k] = [tasks[k] EXCEPT
                                           !.pc = IF tasks[k].pc = "unminimize"
                                                  THEN "show" ELSE "focus",
                                           !.restores = @ + 1]
                        /\ tasks[k].pc # "focus"
                        /\ UNCHANGED <<alarms, showThemeNotification, notificationData>>
        /\ Len(tasks') < Len(tasks) =>
              /\ \E k \in 1..Len(tasks) :
                    tasks[k].pc \in RestoreCalls /\ tasks' = RemoveAt(tasks, k)
              /\ UNCHANGED <<alarms, showThemeNotification, notificationData>>
      ]_vars

\* both deliveries of a sweep have ended, restore included, and the fallback
\* banner of one of them is on display with the annotated body
C24_Witness ==
    /\ Len(fireLog) = 2
    /\ tasks = << >>
    /\ showThemeNotification
    /\ notificationData.body.annotated

(* C25: the alarms that one sweep fires are fired in the order of the store: *)
(* of two alarms fired in the same sweep, the one earlier in the store has   *)
(* its call of triggerAlarm and its delivery started first.                  *)
C25_StoreOrder ==
    [][ /\ \A j1, j2 \in (Len(fireLog) + 1)..Len(fireLog') :
              j1 < j2 => FindIndex(alarms, fireLog'[j1].id) < FindIndex(alarms, fireLog'[j2].id)
        /\ \A k1, k2 \in (Len(tasks) + 1)..Len(tasks') :
              k1 < k2 => FindIndex(alarms, tasks'[k1].alarm) < FindIndex(alarms, tasks'[k2].alarm)
      ]_vars

\* one sweep has fired both alarms of the store, the first before the second
C25_Witness ==
    /\ lastTick = "sweep"
    /\ Len(alarms) = 2
    /\ Len(fireLog) = 2
    /\ fireLog[1] = [id |-> alarms[1].id, minute |-> lastRunMinute, edited |-> FALSE]
    /\ fireLog[2] = [id |-> alarms[2].id, minute |-> lastRunMinute, edited |-> FALSE]
    /\ Len(tasks) = 2
    /\ tasks[1].alarm = alarms[1].id
    /\ tasks[2].alarm = alarms[2].id

(* C26: while no tick has read an earlier minute than the tick before it,    *)
(* every alarm that has a lastTriggered date has one that is not later than  *)
(* the date of the scheduler's most recent reading.                          *)
C26_LastTriggeredNotInFuture ==
    clockMonotone =>
        \A i \in 1..Len(alarms) :
            alarms[i].lastTriggered # NoDate =>
                /\ lastRunMinute # << >>
                /\ ParseDate(alarms[i].lastTriggered) <= ParseDate(SubSeq(lastRunMinute, 1, 3))

\* under a clock that never went back, an alarm fired on one day and the
\* scheduler has since swept on a later day at another time
C26_Witness ==
    /\ clockMonotone
    /\ lastRunMinute # << >>
    /\ \E i \in 1..Len(alarms) :
          /\ alarms[i].lastTriggered # NoDate
          /\ ParseDate(alarms[i].lastTriggered) < ParseDate(SubSeq(lastRunMinute, 1, 3))

(* C27: for an alarm whose rule is not Once, shouldTrigger returns the same  *)
(* result whatever lastTriggered is: absent, the date of the reading, or any *)
(* other date, the other inputs being the same.                              *)
C27_LastTriggeredGatesOnlyOnce ==
    (ev.done /\ ev.alarm.repeat.type # "once") =>
        \A lt \in {NoDate} \cup EvalDates :
            shouldTrigger([ev.alarm EXCEPT !.lastTriggered = lt], ev.now,
                          FormatDate(ev.now.day), Weekday(ev.now.day)) = ev.result

\* a Daily alarm that already fired on the day of the reading is accepted
C27_Witness ==
    /\ ev.done
    /\ ev.alarm.repeat.type = "daily"
    /\ ev.alarm.lastTriggered = FormatDate(ev.now.day)
    /\ ev.result

(* C29: for a MonToSat rule, shouldTrigger returns true exactly on the       *)
(* weekdays 1..6 (0 is Sunday); for a Daily rule it returns true at every    *)
(* reading.                                                                  *)
C29_MonToSatAndDaily ==
    /\ (ev.done /\ ev.alarm.repeat.type = "mon_sat") =>
          (ev.result <=> Weekday(ev.now.day) \in {1, 2, 3, 4, 5, 6})
    /\ (ev.done /\ ev.alarm.repeat.type = "daily") => ev.result

\* a MonToSat alarm is refused on a Sunday
C29_Witness ==
    /\ ev.done
    /\ ev.alarm.repeat.type = "mon_sat"
    /\ Weekday(ev.now.day) = 0
    /\ ~ev.result

(* C28: switching a Once alarm back on with the list's switch leaves its     *)
(* lastTriggered date as it is; a sweep on the day of that date does not     *)
(* fire the alarm and leaves it as it is, although it is enabled; a sweep at *)
(* its time on another day fires it.                                         *)
C28_ReenabledOnceWaitsForNextDay ==
    [][ /\ \A id \in 1..MaxIds : toggleAlarm(id, TRUE) =>
              \A i \in 1..Len(alarms) :
                  /\ alarms'[i].lastTriggered = alarms[i].lastTriggered
                  /\ alarms[i].id = id => alarms'[i].enabled
        /\ \A now \in Readings :
              (Tick(now) /\ FormatMinute(now) # lastRunMinute) =>
                  \A i \in 1..Len(alarms) :
                      (alarms[i].repeat.type = "once" /\ alarms[i].enabled
                         /\ alarms[i].lastTriggered # NoDate) =>
                          IF alarms[i].lastTriggered = FormatDate(now.day)
                          THEN ~FiredNow(alarms[i].id) /\ alarms'[i] = alarms[i]
                          ELSE TimeMatches(alarms[i], now) =>
                                  /\ FiredNow(alarms[i].id)
                                  /\ alarms'[i].lastTriggered = FormatDate(now.day)
      ]_vars

\* a Once alarm fired, was switched on again, and a sweep at its time on the
\* same day has left it enabled and unfired
C28_Witness ==
    \E i \in 1..Len(alarms) :
        /\ lastTick = "sweep"
        /\ alarms[i].repeat.type = "once"
        /\ alarms[i].enabled
        /\ alarms[i].lastTriggered = SubSeq(lastRunMinute, 1, 3)
        /\ lastRunMinute[4] = alarms[i].hour
        /\ lastRunMinute[5] = alarms[i].minute
        /\ Len(fireLog) = 1
        /\ fireLog[1] = [id |-> alarms[i].id, minute |-> lastRunMinute, edited |-> FALSE]
        /\ ~clockMonotone

(* C30 as claimed: every alarm of the store has its shift fields exactly     *)
(* when its rule is Shift, and every Shift alarm has workDays >= 1 and       *)
(* restDays >= 1, whatever the number inputs of the editor held.             *)
C30_ShiftFieldsValid ==
    \A i \in 1..Len(alarms) :
        /\ alarms[i].repeat.shift.present <=> alarms[i].repeat.type = "shift"
        /\ alarms[i].repeat.type = "shift" =>
              /\ alarms[i].repeat.shift.workDays >= 1
              /\ alarms[i].repeat.shift.restDays >= 1

(* C31: toggleAlarm(id, v) sets the enabled flag of the alarm with that id   *)
(* to v and changes no other field of it, no other alarm and not the order   *)
(* of the store; with an id that is not in the store it changes nothing.     *)
(* deleteAlarm and deleteSelected remove exactly the targeted alarms and     *)
(* keep the others unchanged and in their order.                             *)
Remaining(targeted) == SelectSeq(alarms, LAMBDA a : a.id \notin targeted)

C31_ToggleAndDeleteFrame ==
    [][ /\ \A id \in 1..MaxIds, v \in BOOLEAN :
             toggleAlarm(id, v) =>
                 /\ Len(alarms') = Len(alarms)
                 /\ \A j \in 1..Len(alarms) :
                        /\ alarms'[j].id = alarms[j].id
                        /\ alarms'[j].hour = alarms[j].hour
                        /\ alarms'[j].minute = alarms[j].minute
                        /\ alarms'[j].label = alarms[j].label
                        /\ alarms'[j].repeat = alarms[j].repeat
                        /\ alarms'[j].lastTriggered = alarms[j].lastTriggered
                        /\ alarms'[j].enabled = IF alarms[j].id = id THEN v
                                                ELSE alarms[j].enabled
        /\ deleteAlarm => alarms' = Remaining({editingId})
        /\ deleteSelected => alarms' = Remaining(selectedIds)
      ]_vars

\* of the three stored alarms the second is gone, the first has fired and
\* the third, a Daily alarm that has fired, is switched off
C31_Witness ==
    /\ Len(alarms) = 2
    /\ alarms[1].id = 1
    /\ alarms[2].id = 3
    /\ alarms[1].enabled
    /\ ~alarms[2].enabled
    /\ alarms[1].lastTriggered # NoDate
    /\ alarms[2].lastTriggered # NoDate
    /\ ~isSelectionMode
    /\ ~isEditing

(* C32: saveForm with an editingId that is in the store replaces that alarm  *)
(* in place: same id, same position, the length of the store and every       *)
(* other alarm unchanged, enabled true whatever it was, lastTriggered        *)
(* cleared, the other fields from the form.  saveForm with no editingId      *)
(* appends one enabled alarm with an id no stored alarm has.  (That an       *)
(* edited Once alarm that fired today can fire again today at a later        *)
(* minute is the reachability of C32_Witness.)                               *)
C32_SaveReplacesOrAppends ==
    [][ saveFormWithin(MaxStore) =>
          IF editingId # 0
          THEN /\ Len(alarms') = Len(alarms)
               /\ \A j \in 1..Len(alarms) :
                      IF alarms[j].id = editingId
                      THEN /\ alarms'[j].id = editingId
                           /\ alarms'[j].enabled
                           /\ alarms'[j].lastTriggered = NoDate
                           /\ alarms'[j].hour = form.hour
                           /\ alarms'[j].minute = form.minute
                           /\ alarms'[j].repeat.type = form.repeatType
                      ELSE alarms'[j] = alarms[j]
          ELSE /\ Len(alarms') = Len(alarms) + 1
               /\ \A j \in 1..Len(alarms) :
                      /\ alarms'[j] = alarms[j]
                      /\ alarms'[j].id # alarms'[Len(alarms')].id
               /\ alarms'[Len(alarms')].enabled
               /\ alarms'[Len(alarms')].lastTriggered = NoDate
      ]_vars

\* the alarm added through the editor, a Once alarm from its creation, has
\* fired twice on one day: at its first minute, and after an edit of its
\* minute at the later minute
C32_Witness ==
    /\ Len(alarms) = 2
    /\ alarms[2].id = 2
    /\ alarms[2].repeat.type = "once"
    /\ Len(fireLog) = 2
    /\ fireLog[1].id = 2
    /\ fireLog[2].id = 2
    /\ fireLog[1].edited
    /\ SubSeq(fireLog[1].minute, 1, 3) = SubSeq(fireLog[2].minute, 1, 3)
    /\ fireLog[1].minute[5] < fireLog[2].minute[5]
    /\ ~alarms[2].enabled
    /\ alarms[2].lastTriggered = SubSeq(fireLog[2].minute, 1, 3)

(* C33: the form does not leak into the store before save.  A step in which  *)
(* the editor stays open and the form changes (a day button, or any other    *)
(* control), a step that opens the editor, and the cancel button change no   *)
(* stored alarm, although saveForm has stored the form's customDays array    *)
(* itself: while the editor is open, the form's array is no stored alarm's.  *)
C33_FormDoesNotLeak ==
    /\ [](isEditing => FindIndex(alarms, customDaysOwner) = 0)
    /\ [][ /\ (isEditing /\ isEditing' /\ form' # form) => alarms' = alarms
           /\ (~isEditing /\ isEditing') => alarms' = alarms
           /\ CancelEdit => alarms' = alarms
         ]_vars

\* an alarm was saved with a Custom rule and days chosen in the form, so that
\* it holds the array the form had; the editor is open on it again and a day
\* button has changed the form's days, not the alarm's
C33_Witness ==
    \E i \in 1..Len(alarms) :
        /\ isEditing
        /\ editingId = alarms[i].id
        /\ alarms[i].repeat.type = "custom"
        /\ alarms[i].repeat.customDays # << >>
        /\ form.repeatType = "custom"
        /\ form.customDays # alarms[i].repeat.customDays

=============================================================================
